---- MODULE Spec2Model ----
(***************************************************************************)
(* A model of nightcord's voice mesh: VoiceRoomManager                     *)
(* (src/voice-room-manager.js), the coordinator of one WebRTCManager per   *)
(* remote user, driven by voice-state and webrtc-* messages that arrive on *)
(* the shared WebSocket.                                                   *)
(*                                                                         *)
(* Every handler of the class is a function from the coordinator's state   *)
(* to its state after the synchronous part of the handler; each `await`    *)
(* leaves a continuation in `conts`, resumed by a later step.  WebRTCManager *)
(* (webrtc-manager.js) is not among the sources: its operations follow     *)
(* section 4.2 of spec.md.                                                 *)
(***************************************************************************)
EXTENDS Integers, Sequences, FiniteSets, TLC

VARIABLES co, net, ice, store

vars == <<co, net, ice, store>>

(***************************************************************************)
(* Bounds and input sets.                                                  *)
(***************************************************************************)
\* WebRTCManager objects one coordinator constructs in a run.
MaxSessions == 2
\* Continuations one coordinator has suspended at a time.
MaxConts == 1
\* getUserMedia captures one coordinator acquires in a run.
MaxCaptures == 1
\* joinVoiceChat calls suspended in getUserMedia at a time.
MaxJoins == 1
\* Messages in flight to one client (the two-client mesh).
MaxNet == 3
\* ICE candidates the remote side trickles in a run.
MaxCands == 1

Clients == {1, 2}
Users == {"alice", "bob", "carol"}
Rooms == {"lobby"}

\* JavaScript's null (this.username, this.roomname before the first join).
Null == "null"
\* this.localStream === null
NoStream == 0

EmptyMap == [k \in {} |-> 0]
MapSet(m, k, v) == [x \in (DOMAIN m) \cup {k} |-> IF x = k THEN v ELSE m[x]]
MapDelete(m, k) == [x \in (DOMAIN m) \ {k} |-> m[x]]

RemoveAt(q, i) == [j \in 1..(Len(q) - 1) |-> IF j < i THEN q[j] ELSE q[j + 1]]

(***************************************************************************)
(* Wire messages (spec.md section 6) and emitted events.                   *)
(***************************************************************************)
NoPayload == [ok |-> TRUE, id |-> 0]

VoiceStateMsg(u, r, inV, hasM, m) ==
  [type |-> "voice-state", username |-> u, roomname |-> r, inVoice |-> inV,
   hasMuted |-> hasM, muted |-> m]

SignalMsg(t, from, to, r, p) ==
  [type |-> t, from |-> from, to |-> to, roomname |-> r, payload |-> p]

ChatMsg == [type |-> "chat"]

SignalTypes == {"webrtc-offer", "webrtc-answer", "webrtc-ice-candidate"}

\* data.type.startsWith('webrtc-'), over the types that occur.
StartsWithWebrtc(type) == type \in SignalTypes \cup {"webrtc-hangup"}

Sent(m) == [k |-> "send", msg |-> m]
Emitted(name, u, arg) == [k |-> "emit", name |-> name, username |-> u, arg |-> arg]
Thrown(e) == [k |-> "throw", error |-> e]
Passed(m) == [k |-> "original", msg |-> m]

BoolStr(b) == IF b THEN "true" ELSE "false"

(***************************************************************************)
(* WebRTCManager, after spec.md section 4.2.                               *)
(***************************************************************************)
NewManager(remote, role) ==
  [remote |-> remote, role |-> role,
   state |-> IF role = "initiator" THEN "offering" ELSE "awaiting-offer",
   remoteSet |-> FALSE, pending |-> <<>>, applied |-> <<>>,
   localStream |-> NoStream]

\* failed and closed are terminal.
Terminal(m) == m.state \in {"failed", "closed"}

AddLocalStream(m, stream) == [m EXCEPT !.localStream = stream]

\* createOffer(): NegotiationError outside the offering/new state.
MgrCreateOffer(m, envOk) ==
  [ok |-> envOk /\ m.state = "offering" /\ ~m.remoteSet, m |-> m]

\* The remote description is set: the buffered candidates are applied, in order.
ApplyRemote(m) ==
  [m EXCEPT !.state = "have-remote-description", !.remoteSet = TRUE,
            !.applied = @ \o m.pending, !.pending = <<>>]

\* handleOffer(offer): the responder applies the remote offer.
MgrHandleOffer(m, offer) ==
  IF offer.ok /\ m.state = "awaiting-offer"
  THEN [ok |-> TRUE, m |-> ApplyRemote(m)]
  ELSE [ok |-> FALSE, m |-> m]

\* createAnswer(): only after handleOffer.
MgrCreateAnswer(m, envOk) ==
  [ok |-> envOk /\ m.role = "responder"
            /\ m.state \in {"have-remote-description", "connected"},
   m |-> m]

\* handleAnswer(answer): the initiator applies the remote answer.
MgrHandleAnswer(m, answer) ==
  IF answer.ok /\ m.state = "offering"
  THEN [ok |-> TRUE, m |-> ApplyRemote(m)]
  ELSE [ok |-> FALSE, m |-> m]

\* addIceCandidate(candidate): buffered until the remote description is set.
MgrAddIceCandidate(m, cand) ==
  IF Terminal(m) \/ ~cand.ok THEN [ok |-> FALSE, m |-> m]
  ELSE IF ~m.remoteSet
  THEN [ok |-> TRUE, m |-> [m EXCEPT !.pending = Append(@, cand.id)]]
  ELSE [ok |-> TRUE, m |-> [m EXCEPT !.applied = Append(@, cand.id)]]

\* close(): idempotent, closed from any state.
MgrClose(m) == [m EXCEPT !.state = "closed"]

\* The underlying connection changes state and the manager reports it; a
\* report of a manager that was closed meanwhile arrives late.
MgrReport(m, state) ==
  IF Terminal(m) \/ state = "disconnected" THEN m ELSE [m EXCEPT !.state = state]

(***************************************************************************)
(* VoiceRoomManager.                                                       *)
(***************************************************************************)
\* constructor: lines 14-33.  managers, captures: the objects the instance
\* has constructed or acquired; conts, joins: its suspended awaits; out: what
\* the running handler has sent, emitted and thrown, in order.
InitCoord ==
  [inVoice |-> FALSE, localStream |-> NoStream, isMuted |-> FALSE,
   username |-> Null, roomname |-> Null,
   peers |-> EmptyMap, remoteStreams |-> EmptyMap,
   wsConnected |-> TRUE,
   managers |-> <<>>, captures |-> <<>>, conts |-> <<>>, joins |-> 0,
   out |-> <<>>]

Emit(s, ev) == [s EXCEPT !.out = Append(@, ev)]

Cont(kind, sid, remote, payload) ==
  [kind |-> kind, sid |-> sid, remote |-> remote, payload |-> payload]

Await(s, c) == [s EXCEPT !.conts = Append(@, c)]

\* wsManager.send, after the isConnected() test of its two callers.
WsSend(s, m) == Emit(s, Sent(m))

broadcastVoiceState(s) ==
  IF ~s.wsConnected THEN s
  ELSE WsSend(s, VoiceStateMsg(s.username, s.roomname, s.inVoice, TRUE, s.isMuted))

\* sendSignaling as a bug would have it: no isConnected() test before the send.
sendSignalingUnguarded(s, t, to, p) ==
  WsSend(s, SignalMsg(t, s.username, to, s.roomname, p))

sendSignaling(s, t, to, p) ==
  IF ~s.wsConnected THEN s
  ELSE WsSend(s, SignalMsg(t, s.username, to, s.roomname, p))

\* removePeer as a bug would have it: the whole registry is cleared.
removePeerAll(s, username) ==
  LET closing == {s.peers[u] : u \in DOMAIN s.peers}
  IN [s EXCEPT !.managers = [i \in DOMAIN s.managers |->
                               IF i \in closing THEN MgrClose(s.managers[i])
                               ELSE s.managers[i]],
               !.peers = EmptyMap, !.remoteStreams = EmptyMap]

\* removePeer as a bug would have it: voice:stream-removed is emitted whether
\* a stream was recorded or not.
removePeerAnnouncing(s, username) ==
  LET s1 == IF username \in DOMAIN s.peers
            THEN [s EXCEPT !.managers[s.peers[username]] = MgrClose(@),
                           !.peers = MapDelete(@, username)]
            ELSE s
  IN Emit([s1 EXCEPT !.remoteStreams = MapDelete(@, username)],
          Emitted("voice:stream-removed", username, ""))

\* removePeer as a bug would have it: the recorded stream is not forgotten.
removePeerKeepingStream(s, username) ==
  LET s1 == IF username \in DOMAIN s.peers
            THEN [s EXCEPT !.managers[s.peers[username]] = MgrClose(@),
                           !.peers = MapDelete(@, username)]
            ELSE s
  IN IF username \in DOMAIN s1.remoteStreams
     THEN Emit(s1, Emitted("voice:stream-removed", username, ""))
     ELSE s1

removePeer(s, username) ==
  LET s1 == IF username \in DOMAIN s.peers
            THEN [s EXCEPT !.managers[s.peers[username]] = MgrClose(@),
                           !.peers = MapDelete(@, username)]
            ELSE s
  IN IF username \in DOMAIN s1.remoteStreams
     THEN Emit([s1 EXCEPT !.remoteStreams = MapDelete(@, username)],
               Emitted("voice:stream-removed", username, ""))
     ELSE s1

\* new WebRTCManager({...}); this.peers.set(...); addLocalStream: lines
\* 235-269 and 339-373.
RegisterManager(s, remote, role) ==
  LET m == NewManager(remote, role)
      m1 == IF s.localStream # NoStream THEN AddLocalStream(m, s.localStream) ELSE m
  IN [s EXCEPT !.managers = Append(@, m1),
               !.peers = MapSet(@, remote, Len(s.managers) + 1)]

\* Up to `await manager.createOffer()`.
createPeerConnection(s, remoteUsername) ==
  IF remoteUsername \in DOMAIN s.peers THEN s
  ELSE LET s1 == RegisterManager(s, remoteUsername, "initiator")
       IN Await(s1, Cont("createOffer", s1.peers[remoteUsername], remoteUsername, NoPayload))

handleVoiceState(s, data) ==
  IF data.username = s.username THEN s
  ELSE LET s1 == IF data.inVoice
                 THEN LET e == Emit(s, Emitted("voice:joined", data.username, "remote"))
                      IN IF e.inVoice THEN createPeerConnection(e, data.username) ELSE e
                 ELSE Emit(removePeer(s, data.username),
                           Emitted("voice:left", data.username, "remote"))
       IN IF data.hasMuted
          THEN Emit(s1, Emitted("voice:muted", data.username, BoolStr(data.muted)))
          ELSE s1

\* handleOffer as a bug would have it: no `if (!this.peers.has(from))`.
handleOfferReplacing(s, from, offer) ==
  LET s1 == RegisterManager(s, from, "responder")
  IN Await(s1, Cont("handleOffer", s1.peers[from], from, offer))

\* Up to `await manager.handleOffer(offer)`.
handleOffer(s, from, offer) ==
  LET s1 == IF from \notin DOMAIN s.peers
            THEN RegisterManager(s, from, "responder") ELSE s
  IN Await(s1, Cont("handleOffer", s1.peers[from], from, offer))

\* handleAnswer as a bug would have it: a missing manager is created.
handleAnswerRegistering(s, from, answer) ==
  LET s1 == IF from \notin DOMAIN s.peers
            THEN RegisterManager(s, from, "initiator") ELSE s
  IN Await(s1, Cont("handleAnswer", s1.peers[from], from, answer))

\* Up to `await manager.handleAnswer(answer)`.
handleAnswer(s, from, answer) ==
  IF from \notin DOMAIN s.peers THEN s
  ELSE Await(s, Cont("handleAnswer", s.peers[from], from, answer))

\* Up to `await manager.addIceCandidate(candidate)`.
handleIceCandidate(s, from, candidate) ==
  IF from \notin DOMAIN s.peers THEN s
  ELSE Await(s, Cont("addIceCandidate", s.peers[from], from, candidate))

handleSignaling(s, data) ==
  IF data.from = s.username THEN s
  ELSE CASE data.type = "webrtc-offer" -> handleOffer(s, data.from, data.payload)
         [] data.type = "webrtc-answer" -> handleAnswer(s, data.from, data.payload)
         [] data.type = "webrtc-ice-candidate" ->
              handleIceCandidate(s, data.from, data.payload)
         [] OTHER -> s

\* The wsManager.onMessage wrapper installed by setupSignalingHandlers.
onMessage(s, data) ==
  IF StartsWithWebrtc(data.type) THEN handleSignaling(s, data)
  ELSE IF data.type = "voice-state" THEN handleVoiceState(s, data)
  ELSE Emit(s, Passed(data))

\* Whether the awaited operation of continuation c rejects.
rejects(s, c, envOk) ==
  LET m == s.managers[c.sid]
  IN CASE c.kind = "createOffer" -> ~MgrCreateOffer(m, envOk).ok
       [] c.kind = "handleOffer" -> ~MgrHandleOffer(m, c.payload).ok
       [] c.kind = "createAnswer" -> ~MgrCreateAnswer(m, envOk).ok
       [] c.kind = "handleAnswer" -> ~MgrHandleAnswer(m, c.payload).ok
       [] OTHER -> ~MgrAddIceCandidate(m, c.payload).ok

\* The code after an await, resumed with the manager's result.
resume(s, c, envOk) ==
  LET m == s.managers[c.sid]
  IN CASE c.kind = "createOffer" ->
            LET r == MgrCreateOffer(m, envOk)
                s1 == [s EXCEPT !.managers[c.sid] = r.m]
            IN IF r.ok
               THEN sendSignaling(s1, "webrtc-offer", c.remote, [ok |-> TRUE, id |-> c.sid])
               ELSE removePeer(s1, c.remote)
       [] c.kind = "handleOffer" ->
            LET r == MgrHandleOffer(m, c.payload)
                s1 == [s EXCEPT !.managers[c.sid] = r.m]
            IN IF r.ok
               THEN Await(s1, Cont("createAnswer", c.sid, c.remote, NoPayload))
               ELSE removePeer(s1, c.remote)
       [] c.kind = "createAnswer" ->
            LET r == MgrCreateAnswer(m, envOk)
                s1 == [s EXCEPT !.managers[c.sid] = r.m]
            IN IF r.ok
               THEN sendSignaling(s1, "webrtc-answer", c.remote, [ok |-> TRUE, id |-> c.sid])
               ELSE removePeer(s1, c.remote)
       [] c.kind = "handleAnswer" ->
            LET r == MgrHandleAnswer(m, c.payload)
                s1 == [s EXCEPT !.managers[c.sid] = r.m]
            IN IF r.ok THEN s1 ELSE removePeer(s1, c.remote)
       [] OTHER ->
            LET r == MgrAddIceCandidate(m, c.payload)
            IN [s EXCEPT !.managers[c.sid] = r.m]

\* The callbacks handed to new WebRTCManager: lines 236-261 and 340-365.
onIceCandidate(s, sid, cand) ==
  sendSignaling(s, "webrtc-ice-candidate", s.managers[sid].remote,
                [ok |-> TRUE, id |-> cand])

onRemoteStream(s, sid) ==
  LET remote == s.managers[sid].remote
  IN Emit([s EXCEPT !.remoteStreams = MapSet(@, remote, sid)],
          Emitted("voice:stream-added", remote, ""))

\* onConnectionStateChange as a bug would have it: the state is only announced.
onConnectionStateChangeOnly(s, sid, state) ==
  Emit(s, Emitted("voice:connection-state", s.managers[sid].remote, state))

onConnectionStateChange(s, sid, state) ==
  LET remote == s.managers[sid].remote
      e == Emit(s, Emitted("voice:connection-state", remote, state))
  IN IF state \in {"failed", "closed"} THEN removePeer(e, remote) ELSE e

\* joinVoiceChat up to `await navigator.mediaDevices.getUserMedia(...)`.
joinVoiceChat(s, username, roomname) ==
  IF s.inVoice THEN s
  ELSE IF username = "" \/ roomname = ""
  THEN Emit(s, Thrown("Username and roomname required"))
  ELSE [s EXCEPT !.username = username, !.roomname = roomname, !.joins = @ + 1]

\* joinVoiceChat after the await: lines 77-105.
joinResumed(s, granted) ==
  LET s0 == [s EXCEPT !.joins = @ - 1]
  IN IF granted
     THEN LET s1 == [s0 EXCEPT
                       !.captures = Append(@, [stopped |-> FALSE, enabled |-> TRUE]),
                       !.localStream = Len(s0.captures) + 1,
                       !.inVoice = TRUE]
          IN Emit(broadcastVoiceState(s1), Emitted("voice:joined", s1.username, "local"))
     ELSE Emit(Emit(s0, Emitted("voice:error", "", "Microphone access denied")),
               Thrown("getUserMedia"))

\* leaveVoiceChat as a bug would have it: no `if (!this.inVoice) return`.
leaveVoiceChatUnguarded(s) ==
  LET s1 == IF s.localStream # NoStream
            THEN [s EXCEPT !.captures[s.localStream].stopped = TRUE,
                           !.localStream = NoStream]
            ELSE s
      closing == {s1.peers[u] : u \in DOMAIN s1.peers}
      s2 == [s1 EXCEPT
               !.managers = [i \in DOMAIN s1.managers |->
                               IF i \in closing THEN MgrClose(s1.managers[i])
                               ELSE s1.managers[i]],
               !.peers = EmptyMap, !.remoteStreams = EmptyMap,
               !.inVoice = FALSE]
  IN Emit(broadcastVoiceState(s2), Emitted("voice:left", s2.username, "local"))

\* leaveVoiceChat as a bug would have it: the registry is cleared, but the
\* managers are not closed.
leaveVoiceChatNotClosing(s) ==
  IF ~s.inVoice THEN s
  ELSE LET s1 == IF s.localStream # NoStream
                 THEN [s EXCEPT !.captures[s.localStream].stopped = TRUE,
                                !.localStream = NoStream]
                 ELSE s
           s2 == [s1 EXCEPT !.peers = EmptyMap, !.remoteStreams = EmptyMap,
                            !.inVoice = FALSE]
       IN Emit(broadcastVoiceState(s2), Emitted("voice:left", s2.username, "local"))

leaveVoiceChat(s) ==
  IF ~s.inVoice THEN s
  ELSE LET s1 == IF s.localStream # NoStream
                 THEN [s EXCEPT !.captures[s.localStream].stopped = TRUE,
                                !.localStream = NoStream]
                 ELSE s
           closing == {s1.peers[u] : u \in DOMAIN s1.peers}
           s2 == [s1 EXCEPT
                    !.managers = [i \in DOMAIN s1.managers |->
                                    IF i \in closing THEN MgrClose(s1.managers[i])
                                    ELSE s1.managers[i]],
                    !.peers = EmptyMap, !.remoteStreams = EmptyMap,
                    !.inVoice = FALSE]
       IN Emit(broadcastVoiceState(s2), Emitted("voice:left", s2.username, "local"))

toggleMute(s) ==
  IF ~s.inVoice \/ s.localStream = NoStream THEN s
  ELSE LET s1 == [s EXCEPT !.isMuted = ~s.isMuted,
                           !.captures[s.localStream].enabled = s.isMuted]
       IN Emit(broadcastVoiceState(s1),
               Emitted("voice:muted", s1.username, BoolStr(s1.isMuted)))

\* What toggleMute returns: lines 148 and 168.
toggleMuteReturns(s) ==
  IF ~s.inVoice \/ s.localStream = NoStream THEN s.isMuted ELSE ~s.isMuted

\* Array.from(this.peers.keys()): the keys in the order they were set.  A key
\* is set only while absent (lines 228, 338), so the order is that of the
\* managers' creation.
PeerKeys(s) ==
  LET n == Cardinality(DOMAIN s.peers)
  IN CHOOSE q \in [1..n -> DOMAIN s.peers] :
       \A i, j \in 1..n : i < j => s.peers[q[i]] < s.peers[q[j]]

getParticipants(s) ==
  IF s.inVoice THEN <<s.username>> \o PeerKeys(s) ELSE PeerKeys(s)

destroy(s) == leaveVoiceChat(s)

(***************************************************************************)
(* StorageManager (src/unnamed/part_001; part_000 is the same class        *)
(* without normalizeAIMessages).  localStorage holds four keys: the two    *)
(* legacy ones and the two of the default room.  An item is absent, the    *)
(* empty string, text JSON.parse rejects, JSON that is no array, or a JSON *)
(* array of messages; a timestamp item is absent, the empty string, text   *)
(* Number() makes NaN of, or a number.                                     *)
(***************************************************************************)
\* Messages in one stored array.
MaxMsgs == 2
\* The largest timestamp stored.
MaxTime == 2
\* const MAX = 2000
MAX == 2000

Messages ==
  {[timestamp |-> 1, user |-> "alice", text |-> "hi"],
   [timestamp |-> 2, user |-> "bob", text |-> "yo"]}

MessageArrays == UNION {[1..n -> Messages] : n \in 0..MaxMsgs}

AbsentItem == [kind |-> "absent", msgs |-> <<>>]
ArrayItem(msgs) == [kind |-> "array", msgs |-> msgs]

MessageItems ==
  {[kind |-> k, msgs |-> <<>>] : k \in {"absent", "empty", "unparsable", "object"}}
    \cup {ArrayItem(a) : a \in MessageArrays}

AbsentLast == [kind |-> "absent", n |-> 0]
NumLast(n) == [kind |-> "num", n |-> n]

LastItems ==
  {[kind |-> k, n |-> 0] : k \in {"absent", "empty", "nan"}}
    \cup {NumLast(n) : n \in 0..MaxTime}

\* localStorage before anything was stored.
NoStorage ==
  [legacyMessages |-> AbsentItem, legacyLast |-> AbsentLast,
   defaultMessages |-> AbsentItem, defaultLast |-> AbsentLast]

\* The truthiness of what getItem returns: null and '' are falsy.
Truthy(item) == item.kind \notin {"absent", "empty"}

\* Number(item || 0): [nan, n].
ToNumber(item) ==
  IF ~Truthy(item) THEN [nan |-> FALSE, n |-> 0]
  ELSE IF item.kind = "nan" THEN [nan |-> TRUE, n |-> 0]
  ELSE [nan |-> FALSE, n |-> item.n]

\* `${m.timestamp}_${m.user}_${m.text}`
MessageKey(m) == <<m.timestamp, m.user, m.text>>

\* loadMessages(room): JSON.parse(getItem(...) || '[]'), [] when it throws;
\* normalizeAIMessages returns what is no array, and an array when no AI
\* persona is configured, as it is.
loadMessages(st) ==
  LET item == st.defaultMessages
  IN IF ~Truthy(item) \/ item.kind = "unparsable" THEN ArrayItem(<<>>)
     ELSE item

saveMessages(st, msgs) == [st EXCEPT !.defaultMessages = ArrayItem(msgs)]

\* getLastMsgTimestamp(room)
getLastMsgTimestamp(st) == ToNumber(st.defaultLast)

\* setLastMsgTimestamp(room, ts): String(ts)
setLastMsgTimestamp(st, ts) == [st EXCEPT !.defaultLast = NumLast(ts)]

\* oldMsgs.forEach: the messages of old whose key neither existing nor an
\* earlier message of old has, in order.
RECURSIVE ToAppend(_, _)
ToAppend(old, idx) ==
  IF old = <<>> THEN <<>>
  ELSE IF MessageKey(Head(old)) \in idx THEN ToAppend(Tail(old), idx)
  ELSE <<Head(old)>> \o ToAppend(Tail(old), idx \cup {MessageKey(Head(old))})

\* Math.max(a, b) of two Number() results.
MathMax(a, b) ==
  IF a.nan \/ b.nan THEN [nan |-> TRUE, n |-> 0]
  ELSE [nan |-> FALSE, n |-> IF a.n >= b.n THEN a.n ELSE b.n]

\* migrateLegacy(): the storage it leaves, and whether it threw.
migrateLegacy(st) ==
  LET raw == st.legacyMessages
      isArray == Truthy(raw) /\ raw.kind = "array"
  IN IF ~isArray \/ Len(raw.msgs) = 0
     THEN [st |-> IF Truthy(st.legacyLast)
                  THEN [st EXCEPT !.defaultLast = st.legacyLast,
                                  !.legacyLast = AbsentLast]
                  ELSE st,
           threw |-> FALSE]
     ELSE LET existing == loadMessages(st)
          IN IF existing.kind # "array" THEN [st |-> st, threw |-> TRUE]
             ELSE LET idx == {MessageKey(existing.msgs[i]) : i \in DOMAIN existing.msgs}
                      merged == existing.msgs \o ToAppend(raw.msgs, idx)
                      trimmed == IF Len(merged) > MAX
                                 THEN SubSeq(merged, Len(merged) - MAX + 1, Len(merged))
                                 ELSE merged
                      s1 == saveMessages(st, trimmed)
                      oldLast == ToNumber(s1.legacyLast)
                      cur == getLastMsgTimestamp(s1)
                      curLast == IF cur.nan THEN [nan |-> FALSE, n |-> 0] ELSE cur
                      finalLast == MathMax(curLast, oldLast)
                      s2 == IF ~finalLast.nan /\ finalLast.n > 0
                            THEN setLastMsgTimestamp(s1, finalLast.n) ELSE s1
                  IN [st |-> [s2 EXCEPT !.legacyMessages = AbsentItem,
                                        !.legacyLast = AbsentLast],
                      threw |-> FALSE]

\* new StorageManager(): migrateLegacy() in a try that only warns.
constructor(st) == migrateLegacy(st).st

(***************************************************************************)
(* The state machine.  co[c]: the VoiceRoomManager of client c, between    *)
(* handlers (out is what a handler returns, and is empty in between);      *)
(* net[c]: the messages the server has still to deliver to c, in order;    *)
(* ice: the number of ICE candidates delivered so far (a candidate's id is *)
(* its place in the arrival order); store: the browser's localStorage, as   *)
(* StorageManager reads and writes it.                                     *)
(***************************************************************************)
Bounded(s) ==
  /\ Len(s.managers) <= MaxSessions
  /\ Len(s.conts) <= MaxConts
  /\ Len(s.captures) <= MaxCaptures
  /\ s.joins <= MaxJoins

\* The state a handler leaves behind.
Settled(s) == [s EXCEPT !.out = <<>>]

\* Client c's handler took its state to s.
Step(c, s) ==
  /\ Bounded(s)
  /\ co' = [co EXCEPT ![c] = Settled(s)]

\* The messages an arbitrary server and arbitrary remote clients can deliver:
\* a voice-state of any user, with or without the muted field, and a signal
\* from any user to any username the local user may hold or not, well-formed
\* or not.
Recipients == {"alice", "bob"}

InVoiceStates ==
  {VoiceStateMsg(u, "lobby", inV, hasM, hasM) :
     u \in Users, inV \in BOOLEAN, hasM \in BOOLEAN}

InSignals(t, id) ==
  {SignalMsg(t, from, to, "lobby", [ok |-> ok, id |-> id]) :
     from \in Users, to \in Recipients, ok \in BOOLEAN}

InOffers == InSignals("webrtc-offer", 0)
InAnswers == InSignals("webrtc-answer", 0)
\* The next candidate to arrive.
InCandidates == InSignals("webrtc-ice-candidate", ice + 1)

\* A webrtc- message of a type the switch of handleSignaling does not name.
InUnknown == InSignals("webrtc-hangup", 0)

Inbound ==
  InVoiceStates \cup InOffers \cup InAnswers \cup InUnknown \cup {ChatMsg}
    \cup (IF ice < MaxCands THEN InCandidates ELSE {})

\* Who a message is from.
Sender(data) ==
  IF data.type = "voice-state" THEN data.username
  ELSE IF StartsWithWebrtc(data.type) THEN data.from
  ELSE ""

JoinVoice(c, names, rooms) ==
  /\ \E u \in names, r \in rooms : Step(c, joinVoiceChat(co[c], u, r))
  /\ UNCHANGED <<net, ice, store>>

GetUserMedia(c, outcomes) ==
  /\ co[c].joins > 0
  /\ \E granted \in outcomes : Step(c, joinResumed(co[c], granted))
  /\ UNCHANGED <<net, ice, store>>

LeaveVoice(c) ==
  /\ Step(c, leaveVoiceChat(co[c]))
  /\ UNCHANGED <<net, ice, store>>

Receive(c, msgs) ==
  /\ \E data \in msgs :
       /\ Step(c, onMessage(co[c], data))
       /\ ice' = IF data.type = "webrtc-ice-candidate" THEN ice + 1 ELSE ice
  /\ UNCHANGED <<net, store>>

\* The operations of one manager complete in the order they were started.
Resumable(s, i) ==
  /\ i \in DOMAIN s.conts
  /\ \A j \in 1..(i - 1) : s.conts[j].sid # s.conts[i].sid

\* Continuation i of s resumes, with what the environment made of the
\* manager's operation.
Resumed(s, i, envOk) ==
  resume([s EXCEPT !.conts = RemoveAt(@, i)], s.conts[i], envOk)

Resume(c, envOks) ==
  /\ \E i \in DOMAIN co[c].conts, envOk \in envOks :
       /\ Resumable(co[c], i)
       /\ Step(c, Resumed(co[c], i, envOk))
  /\ UNCHANGED <<net, ice, store>>

\* A remote track arrives once the remote description is set; close()
\* releases the manager's resources, and a closed manager delivers none.
RemoteStream(c) ==
  /\ \E sid \in DOMAIN co[c].managers :
       /\ co[c].managers[sid].remoteSet
       /\ ~Terminal(co[c].managers[sid])
       /\ Step(c, onRemoteStream(co[c], sid))
  /\ UNCHANGED <<net, ice, store>>

ReportStates == {"connected", "disconnected", "failed", "closed"}

\* Manager sid of s reports a connection state.
Reported(s, sid, state) ==
  onConnectionStateChange([s EXCEPT !.managers[sid] = MgrReport(@, state)], sid, state)

ConnectionStateChange(c) ==
  /\ \E sid \in DOMAIN co[c].managers, state \in ReportStates :
       /\ state \in {"connected", "disconnected"} =>
            co[c].managers[sid].state \in {"have-remote-description", "connected"}
       /\ Step(c, Reported(co[c], sid, state))
  /\ UNCHANGED <<net, ice, store>>

(***************************************************************************)
(* Spec: one coordinator, joined or not, under every message an arbitrary  *)
(* server can deliver and every outcome of its managers' operations.       *)
(***************************************************************************)
Local == 1
S == co[Local]

Init ==
  /\ co = [c \in Clients |-> InitCoord]
  /\ net = [c \in Clients |-> <<>>]
  /\ ice = 0
  /\ store = NoStorage

Next ==
  \/ JoinVoice(Local, {"alice"}, Rooms)
  \/ GetUserMedia(Local, {TRUE})
  \/ LeaveVoice(Local)
  \/ Receive(Local, Inbound)
  \/ Resume(Local, BOOLEAN)
  \/ RemoteStream(Local)
  \/ ConnectionStateChange(Local)

Spec == Init /\ [][Next]_vars

(***************************************************************************)
(* MeshSpec: two clients of one room, alice and bob, and a server that     *)
(* relays what either sends to the other, in order and without loss.  Each *)
(* joins voice once, in any order or at once; neither leaves, nothing      *)
(* fails but what the handshake itself makes fail.                         *)
(***************************************************************************)
ClientName(c) == IF c = 1 THEN "alice" ELSE "bob"
Other(c) == IF c = 1 THEN 2 ELSE 1

\* What the handler that left s sent, in order.
SentBy(s) ==
  LET sends == SelectSeq(s.out, LAMBDA e : e.k = "send")
  IN [j \in 1..Len(sends) |-> sends[j].msg]

\* Client c's handler consumed the first `taken` messages of its queue and
\* took its state to s; the server queues what it sent for the other client.
MeshStep(c, s, taken) ==
  /\ Step(c, s)
  /\ net' = [d \in Clients |->
               IF d = c THEN SubSeq(net[c], taken + 1, Len(net[c]))
               ELSE net[d] \o SentBy(s)]
  /\ \A d \in Clients : Len(net'[d]) <= MaxNet

MeshJoin(c) ==
  /\ co[c].username = Null
  /\ MeshStep(c, joinVoiceChat(co[c], ClientName(c), "lobby"), 0)
  /\ UNCHANGED <<ice, store>>

MeshGetUserMedia(c) ==
  /\ co[c].joins > 0
  /\ MeshStep(c, joinResumed(co[c], TRUE), 0)
  /\ UNCHANGED <<ice, store>>

MeshToggleMute(c) ==
  /\ co[c].inVoice
  /\ MeshStep(c, toggleMute(co[c]), 0)
  /\ UNCHANGED <<ice, store>>

MeshDeliver(c) ==
  /\ net[c] # <<>>
  /\ MeshStep(c, onMessage(co[c], Head(net[c])), 1)
  /\ UNCHANGED <<ice, store>>

MeshResume(c) ==
  /\ \E i \in DOMAIN co[c].conts :
       /\ Resumable(co[c], i)
       /\ MeshStep(c, Resumed(co[c], i, TRUE), 0)
  /\ UNCHANGED <<ice, store>>

\* A manager that has its local description gathers a candidate.
MeshIceCandidate(c) ==
  /\ ice < MaxCands
  /\ \E sid \in DOMAIN co[c].managers :
       /\ ~Terminal(co[c].managers[sid])
       /\ \A i \in DOMAIN co[c].conts : co[c].conts[i].sid # sid
       /\ MeshStep(c, onIceCandidate(co[c], sid, ice + 1), 0)
  /\ ice' = ice + 1
  /\ UNCHANGED store

MeshNext ==
  \E c \in Clients :
    \/ MeshJoin(c)
    \/ MeshGetUserMedia(c)
    \/ MeshToggleMute(c)
    \/ MeshDeliver(c)
    \/ MeshResume(c)
    \/ MeshIceCandidate(c)

MeshSpec == Init /\ [][MeshNext]_vars

\* Nothing is in flight and nothing is suspended.
MeshQuiet ==
  \A c \in Clients : net[c] = <<>> /\ co[c].conts = <<>> /\ co[c].joins = 0

(***************************************************************************)
(* LocalSpec: the local voice session alone.  The user joins under any     *)
(* arguments, empty ones included, is granted or denied the microphone,    *)
(* mutes, leaves and joins again, while the WebSocket connects and         *)
(* disconnects; no message arrives.                                        *)
(***************************************************************************)
\* Captures the coordinator acquires in a run of LocalSpec.
MaxLocalCaptures == 2
\* joinVoiceChat calls suspended in getUserMedia at a time in LocalSpec.
MaxLocalJoins == 2

JoinNames == {"", "alice", "bob"}
JoinRooms == {"", "lobby"}

LocalBounded(s) ==
  /\ Len(s.captures) <= MaxLocalCaptures
  /\ s.joins <= MaxLocalJoins

LocalStep(s) ==
  /\ LocalBounded(s)
  /\ co' = [co EXCEPT ![Local] = Settled(s)]

LocalJoin ==
  /\ \E u \in JoinNames, r \in JoinRooms : LocalStep(joinVoiceChat(S, u, r))
  /\ UNCHANGED <<net, ice, store>>

LocalGetUserMedia ==
  /\ S.joins > 0
  /\ \E granted \in BOOLEAN : LocalStep(joinResumed(S, granted))
  /\ UNCHANGED <<net, ice, store>>

LocalLeave ==
  /\ LocalStep(leaveVoiceChat(S))
  /\ UNCHANGED <<net, ice, store>>

LocalToggleMute ==
  /\ LocalStep(toggleMute(S))
  /\ UNCHANGED <<net, ice, store>>

\* wsManager.isConnected() changes with the socket.
LocalWsChange ==
  /\ LocalStep([S EXCEPT !.wsConnected = ~S.wsConnected])
  /\ UNCHANGED <<net, ice, store>>

LocalNext ==
  \/ LocalJoin
  \/ LocalGetUserMedia
  \/ LocalLeave
  \/ LocalToggleMute
  \/ LocalWsChange

LocalSpec == Init /\ [][LocalNext]_vars

(***************************************************************************)
(* StorageSpec: localStorage as any earlier version of the page may have   *)
(* left it, a StorageManager constructed on it, and the writes of the      *)
(* default room.                                                           *)
(***************************************************************************)
StorageInit ==
  /\ co = [c \in Clients |-> InitCoord]
  /\ net = [c \in Clients |-> <<>>]
  /\ ice = 0
  /\ store \in [legacyMessages : MessageItems, legacyLast : LastItems,
                defaultMessages : MessageItems, defaultLast : LastItems]

Construct ==
  /\ store' = constructor(store)
  /\ UNCHANGED <<co, net, ice>>

SaveMessages ==
  /\ \E msgs \in MessageArrays : store' = saveMessages(store, msgs)
  /\ UNCHANGED <<co, net, ice>>

SetLastMsgTimestamp ==
  /\ \E ts \in 0..MaxTime : store' = setLastMsgTimestamp(store, ts)
  /\ UNCHANGED <<co, net, ice>>

StorageNext ==
  \/ Construct
  \/ SaveMessages
  \/ SetLastMsgTimestamp

StorageSpec == StorageInit /\ [][StorageNext]_vars

(***************************************************************************)
(* ChannelSpec: the two coordinators constructed, 1 and then 2, on one     *)
(* wsManager, whose onMessage held the chat handler before.  Each          *)
(* constructor wraps what it finds in the slot, so the slot holds the      *)
(* wrapper of 2 around the wrapper of 1 around the chat handler.           *)
(***************************************************************************)
\* The chat handler: wsManager.onMessage before any coordinator was set up.
Original == 0

\* The branches of the wrapper that keep a message: lines 44-47.
VoiceKind(data) == StartsWithWebrtc(data.type) \/ data.type = "voice-state"

\* The handlers that handle data when it is given to the wrapper of the k-th
\* coordinator constructed, in order: the wrapper keeps a voice message and
\* hands any other to the handler it had found in the slot.
RECURSIVE Dispatch(_, _)
Dispatch(k, data) ==
  IF k = Original THEN <<Original>>
  ELSE IF VoiceKind(data) THEN <<k>>
  ELSE Dispatch(k - 1, data)

\* wsManager.onMessage(data), the slot holding the last wrapper installed.
Delivered(data) == Dispatch(Cardinality(Clients), data)

ChannelInbound == {data \in Inbound : Sender(data) \in {"bob", ""}}

ChannelJoin(c) ==
  /\ Step(c, joinVoiceChat(co[c], "alice", "lobby"))
  /\ UNCHANGED <<net, ice, store>>

ChannelGetUserMedia(c) ==
  /\ co[c].joins > 0
  /\ Step(c, joinResumed(co[c], TRUE))
  /\ UNCHANGED <<net, ice, store>>

ChannelLeave(c) ==
  /\ Step(c, leaveVoiceChat(co[c]))
  /\ UNCHANGED <<net, ice, store>>

ChannelReceive ==
  /\ \E data \in ChannelInbound :
       LET handlers == {Delivered(data)[j] : j \in DOMAIN Delivered(data)}
       IN /\ \A c \in Clients \cap handlers : Bounded(onMessage(co[c], data))
          /\ co' = [c \in Clients |->
                      IF c \in handlers THEN Settled(onMessage(co[c], data))
                      ELSE co[c]]
          /\ ice' = IF data.type = "webrtc-ice-candidate" THEN ice + 1 ELSE ice
  /\ UNCHANGED <<net, store>>

ChannelResume(c) ==
  /\ \E i \in DOMAIN co[c].conts :
       /\ Resumable(co[c], i)
       /\ Step(c, Resumed(co[c], i, TRUE))
  /\ UNCHANGED <<net, ice, store>>

ChannelNext ==
  \/ \E c \in Clients :
       \/ ChannelJoin(c)
       \/ ChannelGetUserMedia(c)
       \/ ChannelLeave(c)
       \/ ChannelResume(c)
  \/ ChannelReceive

ChannelSpec == Init /\ [][ChannelNext]_vars

(***************************************************************************)
(* The claims.                                                             *)
(***************************************************************************)
\* The managers s has registered.
Registered(s) == {s.peers[u] : u \in DOMAIN s.peers}

\* The managers of s for remote u that are neither failed nor closed.
LiveManagers(s, u) ==
  {i \in DOMAIN s.managers : s.managers[i].remote = u /\ ~Terminal(s.managers[i])}

\* What s holds about remote u: its registered manager and its stream.
PeerView(s, u) ==
  [manager |-> IF u \in DOMAIN s.peers
               THEN <<[sid |-> s.peers[u], m |-> s.managers[s.peers[u]]]>> ELSE <<>>,
   stream |-> IF u \in DOMAIN s.remoteStreams THEN <<s.remoteStreams[u]>> ELSE <<>>]

\* The local voice session of s.
LocalView(s) ==
  [inVoice |-> s.inVoice, isMuted |-> s.isMuted, localStream |-> s.localStream,
   captures |-> s.captures, username |-> s.username, roomname |-> s.roomname]

Throws(s) == \E j \in DOMAIN s.out : s.out[j].k = "throw"

\* The order the tie-break of spec.md section 4.1 compares usernames in: the
\* UTF-16 code units of a username, compared as JavaScript's < compares strings.
Chars(u) ==
  CASE u = "alice" -> <<97, 108, 105, 99, 101>>
    [] u = "bob"   -> <<98, 111, 98>>
    [] u = "carol" -> <<99, 97, 114, 111, 108>>
    [] OTHER       -> <<>>

RECURSIVE SeqLess(_, _)
SeqLess(a, b) ==
  IF b = <<>> THEN FALSE
  ELSE IF a = <<>> THEN TRUE
  ELSE IF Head(a) # Head(b) THEN Head(a) < Head(b)
  ELSE SeqLess(Tail(a), Tail(b))

\* a < b on strings.
LexLess(a, b) == SeqLess(Chars(a), Chars(b))

\* C1 (MeshSpec), the claim as stated: between two participants in voice each
\* side constructs at most one manager, and only the side whose username is
\* the smaller one creates an offer.
C1_SmallerInitiates ==
  \A c \in Clients :
    /\ Len(co[c].managers) <= 1
    /\ \A i \in DOMAIN co[c].managers :
         co[c].managers[i].role = "initiator" =>
           LexLess(co[c].username, co[c].managers[i].remote)

\* C2: a remote username has at most one live manager, the registry maps a
\* username to a manager of that username, and a voice-state or an offer from
\* a registered remote R constructs no manager and leaves R's entry, if it
\* stays, the manager it was.
C2_OneSessionPerRemote ==
  /\ \A u \in Users : Cardinality(LiveManagers(S, u)) <= 1
  /\ \A u \in DOMAIN S.peers : S.managers[S.peers[u]].remote = u
  /\ \A data \in InVoiceStates \cup InOffers :
       LET R == Sender(data)
           r == onMessage(S, data)
       IN R \in DOMAIN S.peers =>
            /\ Len(r.managers) = Len(S.managers)
            /\ R \in DOMAIN r.peers => r.peers[R] = S.peers[R]

\* C2's case: an offer from R was handled while the manager this side had
\* created for R was registered, and that manager is the one still registered.
C2_Witness ==
  \E i \in DOMAIN S.conts :
    /\ S.conts[i].kind = "handleOffer"
    /\ S.managers[S.conts[i].sid].role = "initiator"
    /\ S.conts[i].remote \in DOMAIN S.peers
    /\ S.peers[S.conts[i].remote] = S.conts[i].sid

\* C3, the claim as stated: the local username is no key of the registry.
C3_LocalNeverPeer == S.username \notin DOMAIN S.peers

\* C4, the claim as stated: a well-formed candidate from a remote user that
\* arrives while the local user is in voice is kept, whether a manager for
\* that user exists or not: it is handed to a manager of that user to be
\* buffered or applied.
C4_NoCandidateDropped ==
  S.inVoice =>
    \A data \in InCandidates :
      (data.from # S.username /\ data.payload.ok) =>
        LET r == onMessage(S, data)
        IN \E i \in DOMAIN r.conts :
             /\ r.conts[i].kind = "addIceCandidate"
             /\ r.conts[i].remote = data.from
             /\ r.conts[i].payload = data.payload

\* C5 (MeshSpec), the claim as stated: once both clients are in voice and
\* every message sent has been delivered and handled, each has a manager
\* registered for the other.
C5_MeshComplete ==
  (MeshQuiet /\ \A c \in Clients : co[c].inVoice) =>
    \A c \in Clients : ClientName(Other(c)) \in DOMAIN co[c].peers

\* C6, the claim as stated: once the local username is set, an offer, answer
\* or candidate addressed to another username, or sent under the local one,
\* changes nothing, sends nothing and emits nothing.
C6_MisaddressedDiscarded ==
  S.username # Null =>
    \A data \in InOffers \cup InAnswers \cup InCandidates :
      (data.to # S.username \/ data.from = S.username) => onMessage(S, data) = S

\* C7, the claim as stated: when the awaited step of a continuation for
\* remote R rejects, R is registered no more and the manager is closed.
C7_FailureRemovesPeer ==
  \A i \in DOMAIN S.conts, envOk \in BOOLEAN :
    (Resumable(S, i) /\ rejects(S, S.conts[i], envOk)) =>
      LET r == Resumed(S, i, envOk)
      IN /\ S.conts[i].remote \notin DOMAIN r.peers
         /\ Terminal(r.managers[S.conts[i].sid])

\* The step from s to r, a failure of remote R's manager, is contained: what
\* s held about every other remote and the local voice session are as they
\* were, nothing is thrown, and a message from another user is handled
\* after it as it would have been before.
Contained(s, r, R) ==
  /\ \A Q \in Users \ {R} : PeerView(r, Q) = PeerView(s, Q)
  /\ LocalView(r) = LocalView(s)
  /\ ~Throws(r)
  /\ \A data \in InVoiceStates \cup InOffers \cup InAnswers :
       Sender(data) # R =>
         /\ PeerView(onMessage(Settled(r), data), Sender(data))
              = PeerView(onMessage(s, data), Sender(data))
         /\ onMessage(Settled(r), data).out = onMessage(s, data).out

\* C8: a rejected step of a manager of remote R, and a `failed` report of it,
\* are contained.
C8_FailureContained ==
  /\ \A i \in DOMAIN S.conts, envOk \in BOOLEAN :
       (Resumable(S, i) /\ rejects(S, S.conts[i], envOk)) =>
         Contained(S, Resumed(S, i, envOk), S.conts[i].remote)
  /\ \A sid \in DOMAIN S.managers :
       Contained(S, Reported(S, sid, "failed"), S.managers[sid].remote)

\* C8's case: the offer for registered R is about to fail while another
\* remote Q is registered and has a stream recorded.
C8_Witness ==
  \E i \in DOMAIN S.conts, Q \in DOMAIN S.remoteStreams :
    /\ Resumable(S, i) /\ rejects(S, S.conts[i], FALSE)
    /\ S.conts[i].remote \in DOMAIN S.peers
    /\ Q # S.conts[i].remote /\ Q \in DOMAIN S.peers
    /\ S.inVoice
    /\ Resumed(S, i, FALSE).peers # S.peers

\* C9: when the manager registered for R reports failed or closed, connected
\* to the server or not, the state is announced and, when the callback
\* returns, R is registered no more and the manager is closed.
C9_TerminalReportRemoves ==
  \A R \in DOMAIN S.peers, state \in {"failed", "closed"}, ws \in BOOLEAN :
    LET r == Reported([S EXCEPT !.wsConnected = ws], S.peers[R], state)
    IN /\ R \notin DOMAIN r.peers
       /\ r.managers[S.peers[R]].state = "closed"
       /\ \E j \in DOMAIN r.out : r.out[j] = Emitted("voice:connection-state", R, state)

\* C9's case: a connected manager with its stream recorded is registered, and
\* its report of `failed` takes it out of the registry.
C9_Witness ==
  \E R \in DOMAIN S.peers :
    /\ S.managers[S.peers[R]].state = "connected"
    /\ R \in DOMAIN S.remoteStreams
    /\ R \notin DOMAIN Reported(S, S.peers[R], "failed").peers

\* C10: an answer or a candidate from a user with no registered manager
\* changes nothing, constructs and suspends nothing, sends and emits nothing.
C10_LateSignalDiscarded ==
  \A data \in InAnswers \cup InCandidates :
    data.from \notin DOMAIN S.peers => onMessage(S, data) = S

\* C10's case: the local user is in voice, the manager that had sent R an
\* offer was removed before any answer was applied, and none is registered
\* for R since.
C10_Witness ==
  \E i \in DOMAIN S.managers :
    /\ S.inVoice
    /\ S.managers[i].role = "initiator"
    /\ S.managers[i].state = "closed"
    /\ ~S.managers[i].remoteSet
    /\ S.managers[i].remote \notin DOMAIN S.peers
    /\ S.managers[i].remote # S.username

\* C11 (LocalSpec), the claim as stated: in any state, joinVoiceChat with an
\* empty username or an empty roomname throws, and leaves the whole state as
\* it was: nothing is set, acquired, suspended, sent or emitted.
C11_EmptyArgumentsRejected ==
  \A u \in JoinNames, r \in JoinRooms :
    (u = "" \/ r = "") =>
      LET x == joinVoiceChat(S, u, r)
      IN /\ x.out = <<Thrown("Username and roomname required")>>
         /\ Settled(x) = S

\* The events named `name` that the handler that left s emitted.
EmittedAs(s, name) ==
  {j \in DOMAIN s.out : s.out[j].k = "emit" /\ s.out[j].name = name}

\* The messages the handler that left s sent.
Sends(s) == {j \in DOMAIN s.out : s.out[j].k = "send"}

\* C12 (LocalSpec), the claim as stated: joinVoiceChat while in voice fails
\* with an error, and leaves the session as it was.
C12_AlreadyInVoiceRejected ==
  S.inVoice =>
    \A u \in JoinNames \ {""}, r \in JoinRooms \ {""} :
      LET x == joinVoiceChat(S, u, r)
      IN Throws(x) /\ Settled(x) = S

\* C13 (LocalSpec), the claim as stated: a join whose media acquisition is
\* refused leaves the state the call found: inVoice false, no capture, the
\* username and roomname of before; nothing is sent, no voice:joined emitted.
C13_DeniedJoinLeavesState ==
  (~S.inVoice /\ S.joins = 0) =>
    \A u \in JoinNames \ {""}, r \in JoinRooms \ {""} :
      LET x == joinResumed(Settled(joinVoiceChat(S, u, r)), FALSE)
      IN /\ Settled(x) = S
         /\ Sends(x) = {}
         /\ EmittedAs(x, "voice:joined") = {}

\* C14 (LocalSpec), the claim as stated: a join rejected for empty arguments,
\* and a join rejected because the microphone was refused, each throw and
\* each emit exactly one voice:error.
C14_RejectedJoinEmitsError ==
  /\ ~S.inVoice =>
       \A u \in JoinNames, r \in JoinRooms :
         (u = "" \/ r = "") =>
           LET x == joinVoiceChat(S, u, r)
           IN Throws(x) /\ Cardinality(EmittedAs(x, "voice:error")) = 1
  /\ S.joins > 0 =>
       LET x == joinResumed(S, FALSE)
       IN Throws(x) /\ Cardinality(EmittedAs(x, "voice:error")) = 1

\* C15 (LocalSpec), the claim as stated: a join that succeeds while the
\* socket is connected, the first or one after a leave, sets inVoice and then
\* sends exactly the voice-state {u, r, inVoice: true, muted: false} and then
\* emits exactly voice:joined{u, local}.
C15_JoinAnnounced ==
  (~S.inVoice /\ S.joins = 0 /\ S.wsConnected) =>
    \A u \in JoinNames \ {""}, r \in JoinRooms \ {""} :
      LET x == joinResumed(Settled(joinVoiceChat(S, u, r)), TRUE)
      IN /\ x.inVoice
         /\ x.out = <<Sent(VoiceStateMsg(u, r, TRUE, TRUE, FALSE)),
                      Emitted("voice:joined", u, "local")>>

\* C16 (LocalSpec): leaveVoiceChat when not in voice changes nothing, sends
\* nothing and emits nothing; a second leaveVoiceChat in a row leaves the state
\* of the first and emits no voice:left; a leaveVoiceChat in voice emits
\* exactly one voice:left{local}, so that each voice session ends with one.
C16_LeaveIdempotent ==
  LET once == leaveVoiceChat(S)
      twice == leaveVoiceChat(Settled(once))
  IN /\ ~S.inVoice => once = S
     /\ Settled(twice) = Settled(once)
     /\ twice.out = <<>>
     /\ S.inVoice =>
          /\ Cardinality(EmittedAs(once, "voice:left")) = 1
          /\ \E j \in DOMAIN once.out :
               once.out[j] = Emitted("voice:left", S.username, "local")

\* C16's case: a leave has acted (the capture of the session is stopped, the
\* user is out of voice, the mute flag still set), and leaving again changes
\* nothing.
C16_Witness ==
  /\ ~S.inVoice
  /\ S.isMuted
  /\ \E i \in DOMAIN S.captures : S.captures[i].stopped
  /\ leaveVoiceChat(S) = S

\* C17: after leaveVoiceChat in voice, connected to the server or not, the
\* user is out of voice, the capture is stopped and its handle null, every
\* manager that was registered is closed and the registry and the streams are
\* empty; one voice-state with inVoice false was sent if connected and none
\* otherwise, and one voice:left{local} was emitted.
C17_LeaveReleasesAll ==
  S.inVoice =>
    \A ws \in BOOLEAN :
      LET x == leaveVoiceChat([S EXCEPT !.wsConnected = ws])
          sent == SelectSeq(x.out, LAMBDA o : o.k = "send")
      IN /\ ~x.inVoice
         /\ x.localStream = NoStream
         /\ S.localStream # NoStream => x.captures[S.localStream].stopped
         /\ \A i \in Registered(S) : x.managers[i].state = "closed"
         /\ x.peers = EmptyMap
         /\ x.remoteStreams = EmptyMap
         /\ sent = IF ws
                   THEN <<Sent(VoiceStateMsg(S.username, S.roomname, FALSE, TRUE, S.isMuted))>>
                   ELSE <<>>
         /\ Cardinality(EmittedAs(x, "voice:left")) = 1
         /\ x.out[Len(x.out)] = Emitted("voice:left", S.username, "local")

\* C17's case: the user leaves voice with a connected manager registered and
\* its stream recorded, and another manager still negotiating.
C17_Witness ==
  /\ S.inVoice
  /\ S.localStream # NoStream
  /\ \E R \in DOMAIN S.peers :
       /\ S.managers[S.peers[R]].state = "connected"
       /\ R \in DOMAIN S.remoteStreams
  /\ \E Q \in DOMAIN S.peers : S.managers[S.peers[Q]].state = "offering"
  /\ leaveVoiceChat(S).peers = EmptyMap

\* C18 (LocalSpec), the claim as stated: out of voice, whatever the mute
\* history, toggleMute returns false, leaves the state as it was, sends
\* nothing and emits nothing.
C18_ToggleMuteOutOfVoice ==
  ~S.inVoice => (toggleMuteReturns(S) = FALSE /\ toggleMute(S) = S)

C20_StreamRemovedOnce ==
  \A u \in DOMAIN S.peers :
    LET x == removePeer(S, u)
        again == removePeer(Settled(x), u)
        late == Reported(Settled(x), S.peers[u], "closed")
    IN /\ x.managers[S.peers[u]].state = "closed"
       /\ u \notin DOMAIN x.peers
       /\ x.out = IF u \in DOMAIN S.remoteStreams
                  THEN <<Emitted("voice:stream-removed", u, "")>> ELSE <<>>
       /\ EmittedAs(again, "voice:stream-removed") = {}
       /\ EmittedAs(late, "voice:stream-removed") = {}

\* C20's case: a registered manager whose stream is recorded is removed.
C20_Witness ==
  \E u \in DOMAIN S.peers :
    /\ u \in DOMAIN S.remoteStreams
    /\ S.managers[S.peers[u]].remoteSet
    /\ removePeer(S, u).out = <<Emitted("voice:stream-removed", u, "")>>

\* C21, the claim as stated: destroy() leaves the state leaveVoiceChat()
\* leaves, and after it no voice-state, offer, answer or candidate delivered
\* on the transport changes the state, constructs a manager, sends or emits.
C21_DestroyUnsubscribes ==
  LET x == Settled(destroy(S))
  IN /\ x = Settled(leaveVoiceChat(S))
     /\ \A data \in InVoiceStates \cup InOffers \cup InAnswers \cup InCandidates :
          onMessage(x, data) = x

\* C25 (StorageSpec), the claim as stated: after the migration the
\* constructor runs, both legacy keys are absent from storage, whatever they
\* held: an array, empty or not, a non-array or unparsable text, with a
\* legacy timestamp or without.
C25_LegacyKeysRemoved ==
  (store.legacyMessages.kind \in {"array", "object", "unparsable"}
     /\ store.legacyLast.kind \in {"absent", "num"}) =>
    LET x == constructor(store)
    IN x.legacyMessages.kind = "absent" /\ x.legacyLast.kind = "absent"

\* C26 (StorageSpec), the claim as stated: when the legacy timestamp key holds
\* a timestamp, the default room's key holds after the migration the larger
\* of it and the timestamp the default room had, with legacy messages or
\* without; the default room's timestamp is never lowered.
C26_LastMsgIsMax ==
  (store.legacyLast.kind = "num" /\ store.legacyLast.n > 0
     /\ store.defaultLast.kind \in {"absent", "num"}) =>
    LET x == constructor(store)
        before == ToNumber(store.defaultLast).n
    IN /\ x.defaultLast =
            NumLast(IF store.legacyLast.n >= before THEN store.legacyLast.n ELSE before)
       /\ ToNumber(x.defaultLast).n >= before

\* C22 (ChannelSpec), the claim as stated: with two coordinators set up on
\* one transport, every voice-state, offer, answer and candidate is handled
\* by each of them, and every other message by the chat handler, exactly
\* once.
C22_EveryConsumerReceives ==
  \A data \in ChannelInbound :
    LET d == Delivered(data)
    IN IF VoiceKind(data)
       THEN \A c \in Clients : Cardinality({j \in DOMAIN d : d[j] = c}) = 1
       ELSE d = <<Original>>

\* s with the transport disconnected: wsManager.isConnected() is false.
Disconnected(s) == [s EXCEPT !.wsConnected = FALSE]

NotSent(o) == o.k # "send"

\* What is left of a handler's outcome s when its sends are set aside.
LocalEffects(s) ==
  [s EXCEPT !.out = SelectSeq(@, NotSent), !.wsConnected = FALSE]

\* x is the outcome, on a disconnected transport, of the handler whose outcome
\* on a connected one is y: nothing sent, nothing thrown, the same state
\* changes and the same events in the same order.
SilentlyAs(x, y) ==
  /\ Sends(x) = {}
  /\ ~Throws(x)
  /\ x = LocalEffects(y)

\* C23 (Spec): with the transport disconnected, joinVoiceChat once the
\* capture is granted, leaveVoiceChat, toggleMute, the relay of a created
\* offer or answer and the relay of a local ICE candidate send nothing and
\* throw nothing, and change the state and emit the events they do when
\* connected.
C23_DisconnectedSendsNothing ==
  LET D == Disconnected(S)
  IN /\ S.wsConnected
     /\ S.joins > 0 => SilentlyAs(joinResumed(D, TRUE), joinResumed(S, TRUE))
     /\ SilentlyAs(leaveVoiceChat(D), leaveVoiceChat(S))
     /\ SilentlyAs(toggleMute(D), toggleMute(S))
     /\ \A i \in DOMAIN S.conts :
          Resumable(S, i) => SilentlyAs(Resumed(D, i, TRUE), Resumed(S, i, TRUE))
     /\ \A sid \in DOMAIN S.managers, cand \in 1..MaxCands :
          SilentlyAs(onIceCandidate(D, sid, cand), onIceCandidate(S, sid, cand))

\* In voice with a created offer to relay, which a connected transport would
\* send, and a registered manager whose candidate it would send.
C23_Witness ==
  /\ S.inVoice
  /\ \E i \in DOMAIN S.conts :
       /\ Resumable(S, i)
       /\ S.conts[i].kind = "createOffer"
       /\ Sends(Resumed(S, i, TRUE)) # {}
       /\ Sends(Resumed(Disconnected(S), i, TRUE)) = {}
  /\ \E sid \in DOMAIN S.managers :
       /\ Sends(onIceCandidate(S, sid, 1)) # {}
       /\ Sends(onIceCandidate(Disconnected(S), sid, 1)) = {}
  /\ Sends(toggleMute(S)) # {}
  /\ EmittedAs(toggleMute(Disconnected(S)), "voice:muted") # {}

\* C24 (Spec), the claim as stated: getParticipants() has the local username
\* as its first element exactly when the local user is in voice, and after
\* it exactly the usernames with a registered manager, each once.
C24_ParticipantsListed ==
  LET p == getParticipants(S)
      rest == IF S.inVoice THEN Tail(p) ELSE p
  IN /\ S.inVoice <=> (p # <<>> /\ p[1] = S.username)
     /\ {rest[j] : j \in DOMAIN rest} = DOMAIN S.peers
     /\ \A i, j \in DOMAIN rest : rest[i] = rest[j] => i = j

\* C27 (LocalSpec), the claim as stated: while the local user is in voice,
\* the local capture's audio is enabled exactly when the mute flag is false,
\* across any sequence of join, toggleMute, leave and re-join.
C27_CaptureFollowsMuteFlag ==
  (S.inVoice /\ S.localStream # NoStream) =>
    (S.captures[S.localStream].enabled <=> ~S.isMuted)

\* C28 (Spec), the claim as stated: while the local user is not in voice the
\* peer registry is empty, whatever voice-state, offer, answer or candidate
\* has arrived.
C28_NoPeersOutOfVoice ==
  ~S.inVoice => S.peers = EmptyMap

\* Manager sid of s was removed from the registry and its remote has a newer
\* manager registered.
Superseded(s, sid) ==
  /\ sid \in DOMAIN s.managers
  /\ sid \notin Registered(s)
  /\ s.managers[sid].remote \in DOMAIN s.peers

\* C29 (Spec), the claim as stated: a late failed or closed report of a
\* removed manager, and an offer or answer step of it that completes or
\* fails after the removal, leave the newer manager registered for the same
\* remote and that remote's stream as they are, and send nothing.
C29_StaleCallbackIgnored ==
  \A sid \in DOMAIN S.managers :
    Superseded(S, sid) =>
      LET R == S.managers[sid].remote
      IN /\ \A state \in {"failed", "closed"} :
              PeerView(Reported(S, sid, state), R) = PeerView(S, R)
         /\ \A i \in DOMAIN S.conts, envOk \in BOOLEAN :
              (S.conts[i].sid = sid /\ Resumable(S, i)) =>
                LET x == Resumed(S, i, envOk)
                IN PeerView(x, R) = PeerView(S, R) /\ Sends(x) = {}

\* The captures s acquired and has not stopped.
HeldCaptures(s) == {i \in DOMAIN s.captures : ~s.captures[i].stopped}

\* C30 (LocalSpec), the claim as stated: the coordinator holds at most one
\* local capture at a time, the one localStream refers to, and none once it
\* has left voice, also when joinVoiceChat is called again while an earlier
\* call awaits the capture.
C30_OneCaptureHeld ==
  /\ HeldCaptures(S) \subseteq {S.localStream}
  /\ ~S.inVoice => HeldCaptures(S) = {}

\* The handler that left s emitted voice:stream-removed for u.
StreamRemovedFor(s, u) ==
  \E j \in DOMAIN s.out : s.out[j] = Emitted("voice:stream-removed", u, "")

\* What the operations that tear the session of u down make of s: removePeer,
\* a voice-state of u with inVoice false, a failure report of its manager,
\* leaveVoiceChat and destroy.
Teardowns(s, u) ==
  {removePeer(s, u), leaveVoiceChat(s), destroy(s)}
    \cup {handleVoiceState(s, VoiceStateMsg(u, r, FALSE, hasM, m)) :
            r \in Rooms, hasM \in BOOLEAN, m \in BOOLEAN}
    \cup (IF u \in DOMAIN s.peers THEN {Reported(s, s.peers[u], "failed")} ELSE {})

\* C31 (Spec), the claim as stated: whichever operation tears down the
\* session of a remote u whose stream was published (voice:stream-added
\* emitted, no voice:stream-removed since), it emits voice:stream-removed
\* for u.
C31_PublishedStreamRetracted ==
  \A u \in DOMAIN S.remoteStreams :
    \A x \in Teardowns(S, u) :
      u \notin DOMAIN x.peers => StreamRemovedFor(x, u)

====
